---- MODULE Spec2Model ----
(***************************************************************************)
(* Versioned deployment and rollback engine of create-app.js:              *)
(* the version ledger (apps.json), the live app directory, the backup      *)
(* snapshots under .backups/<version>, and the containers of one app.      *)
(* Every CLI invocation is one process that runs one command to its end;   *)
(* improveApp and rollbackToVersion are split at their awaits so that the  *)
(* order of backup, file writes, build, the blue-green steps and the       *)
(* ledger commit is visible.                                               *)
(***************************************************************************)
EXTENDS Integers, Sequences, FiniteSets, TLC

\* ---------------------------------------------------------------- bounds
MaxVersions == 3      \* cap on the length of app.versions
MaxLineage == 4       \* the same cap in the runs without faults
MaxContent == 2       \* file contents are 1..MaxContent, 0 = file absent
MaxPortAllocs == 2    \* cap on the number of findAvailablePort allocations
MaxBatch == 1         \* cap on the number of files in one generated batch
MaxFix == 1           \* cap on the number of files one automated fix touches
MaxFleetAllocs == 3   \* cap on port allocations when processes run concurrently
MaxPortRuns == 11     \* cap on port allocations when commands run one by one
MaxFleetVersions == 2 \* cap on the versions of one app of the fleet
TimeoutSec == 15      \* healthCheckContainer: timeoutMs = 15000, in seconds
StartupWait == 2      \* healthCheckContainer: the wait before the probe, in seconds
AbortBuffer == 1      \* healthCheckContainer: the probe is aborted 1 s before timeoutMs

\* ------------------------------------------------------ program constants
BasePort == 3100      \* defaultData.nextPort
TempOffset == 1000    \* tempPort = port + 1000
NoPort == 0           \* port: null (createApp whose docker run failed)
MaxAttempts == 100    \* findAvailablePort: maxAttempts
MaxRetries == 3       \* buildAndRunDocker: maxRetries

Paths == {"package.json", "server.js"}
Contents == 1..MaxContent
Absent == 0
Unknown == 0          \* the hash 'unknown' of an unreadable file
NoApp == [none |-> TRUE]
NoVersion == <<0, 0, 0>>

\* A version identifier vMAJOR.MINOR.PATCH is the triple of its numbers.
V100 == <<1, 0, 0>>

\* Container names: the app's own name, `${appName}-${version}` with the
\* dots replaced, and `${appName}-${Date.now()}`.
CApp == [kind |-> "app", v |-> NoVersion]
CVer(v) == [kind |-> "ver", v |-> v]

\* Generated file batches: a content for every path the batch holds.
Batches ==
  UNION {[S -> Contents] : S \in {T \in SUBSET Paths : Cardinality(T) <= MaxBatch}}

\* -------------------------------------------------------- pure functions
\* crypto.createHash('sha256')...digest('hex'): an injective digest.
Sha256(c) == 100 + c

\* A faulty fingerprinting that leaves an unreadable file out of the result.
generateFileHashesSkipsUnreadable(dir, files) ==
  [f \in {g \in files : dir[g] # Absent} |-> Sha256(dir[f])]

generateFileHashes(dir, files) ==
  [f \in files |-> IF dir[f] = Absent THEN Unknown ELSE Sha256(dir[f])]

\* hashes[file]: the value of the property, undefined when there is none;
\* `!hashes[file]` is true for undefined only, every hash being a non-empty
\* string.
Undefined == -1
Get(hashes, file) == IF file \in DOMAIN hashes THEN hashes[file] ELSE Undefined
Truthy(v) == v # Undefined

\* A faulty diff whose second test is not an `else`: an added file is
\* reported as changed as well.
detectChangedFilesNoElse(oldHashes, newHashes) ==
  [changedFiles |-> {f \in DOMAIN newHashes : Get(oldHashes, f) # newHashes[f]},
   addedFiles   |-> {f \in DOMAIN newHashes : ~Truthy(Get(oldHashes, f))},
   removedFiles |-> {f \in DOMAIN oldHashes : ~Truthy(Get(newHashes, f))}]

detectChangedFiles(oldHashes, newHashes) ==
  [changedFiles |-> {f \in DOMAIN newHashes :
                       Truthy(Get(oldHashes, f)) /\ Get(oldHashes, f) # newHashes[f]},
   addedFiles   |-> {f \in DOMAIN newHashes : ~Truthy(Get(oldHashes, f))},
   removedFiles |-> {f \in DOMAIN oldHashes : ~Truthy(Get(newHashes, f))}]

\* A faulty bump that would raise MAJOR on a change of package.json.
calculateSemanticVersionMajor(currentVersion, changeType, changedFiles) ==
  IF changeType = "major" \/ "package.json" \in changedFiles
  THEN <<currentVersion[1] + 1, 0, 0>>
  ELSE <<currentVersion[1], currentVersion[2], currentVersion[3] + 1>>

calculateSemanticVersion(currentVersion, changeType, changedFiles) ==
  IF changeType = "major" \/ "package.json" \in changedFiles
  THEN <<currentVersion[1], currentVersion[2] + 1, 0>>
  ELSE <<currentVersion[1], currentVersion[2], currentVersion[3] + 1>>

\* parseAndCreateFiles: every block of the batch is written, in its place.
WriteFiles(dir, batch) ==
  [f \in Paths |-> IF f \in DOMAIN batch THEN batch[f] ELSE dir[f]]

\* Array.prototype.find over app.versions: the index of the FIRST entry
\* carrying the identifier, 0 when there is none.
FindIndex(versions, v) ==
  IF \E i \in 1..Len(versions) : versions[i].version = v
  THEN CHOOSE i \in 1..Len(versions) :
         /\ versions[i].version = v
         /\ \A j \in 1..(i - 1) : versions[j].version # v
  ELSE 0

getCurrentVersion(a) == FindIndex(a.versions, a.currentVersion)

\* createBackup: mkdir .backups/<version>, then copy every file of the
\* current version that can be read; a failed copy is skipped and leaves
\* whatever the snapshot held for that path.
createBackup(bk, a, dir, version) ==
  LET idx == getCurrentVersion(a)
      files == IF idx = 0 THEN {} ELSE a.versions[idx].files
      old == IF version \in DOMAIN bk THEN bk[version]
             ELSE [f \in Paths |-> Absent]
      snap == [f \in Paths |->
                 IF f \in files /\ dir[f] # Absent THEN dir[f] ELSE old[f]]
  IN  [v \in (DOMAIN bk) \cup {version} |-> IF v = version THEN snap ELSE bk[v]]

\* restoreFromBackup reports success iff the snapshot directory exists and
\* the ledger has an entry for the version.
restoreOk(bk, a, version) ==
  version \in DOMAIN bk /\ FindIndex(a.versions, version) # 0

\* A faulty restore that copies the snapshot before it looks the version
\* up in the ledger.
restoreFromBackupCopiesFirst(bk, a, dir, version) ==
  IF version \notin DOMAIN bk THEN dir
  ELSE [f \in Paths |-> IF bk[version][f] # Absent THEN bk[version][f] ELSE dir[f]]

\* restoreFromBackup: copy every file listed by the (first) entry of the
\* version from the snapshot; a file the snapshot lacks is skipped.
restoreFromBackup(bk, a, dir, version) ==
  IF ~restoreOk(bk, a, version) THEN dir
  ELSE LET files == a.versions[FindIndex(a.versions, version)].files
       IN  [f \in Paths |->
              IF f \in files /\ bk[version][f] # Absent
              THEN bk[version][f] ELSE dir[f]]

\* ------------------------------------------------------------ containers
\* A container is [name, port, running]; `docker rm` drops the record.
Has(cs, n) == \E c \in cs : c.name = n
Running(cs, n) == \E c \in cs : c.name = n /\ c.running
OnPort(cs, p) == {c \in cs : c.running /\ c.port = p}
\* docker stop + docker rm of one name
Remove(cs, n) == {c \in cs : c.name # n}
\* docker ps --filter publish=<port> | xargs docker stop / docker rm
RemovePublishing(cs, p) == {c \in cs : c.port # p}
\* docker run -d --name n -p p:3000
Run(cs, n, p) == cs \cup {[name |-> n, port |-> p, running |-> TRUE]}
\* docker run fails when the name is taken, the host port is bound, or the
\* port is not a port (null)
CanRun(cs, n, p) == ~Has(cs, n) /\ OnPort(cs, p) = {} /\ p # NoPort

VARIABLES
  app,         \* the ledger entry of the app in apps.json, or NoApp
  nextPort,    \* db.data.nextPort
  live,        \* live app directory: path -> content
  backups,     \* .backups: version -> (path -> content)
  containers,  \* containers of the container engine
  pc,          \* position of the running command
  cyc,         \* locals of the running improve / rollback cycle
  outcome,     \* how the last command ended: <<command, result>>
  console,     \* status lines the running / last command has printed
  fleet,       \* several apps and CLI processes over one apps.json
  fn           \* one call of a pure function: its inputs and its result

vars == <<app, nextPort, live, backups, containers, pc, cyc, outcome,
          console, fleet, fn>>

\* what the commands on the single app never touch
aux == <<fleet, fn>>
\* the single app, which the commands of the fleet never touch
single == <<app, nextPort, live, backups, containers, pc, cyc, outcome, console>>

\* cur is the index of the entry that `currentVersion` refers to (a
\* reference into app.versions); live0 is the live directory when the
\* cycle started; oldName, oldWasRunning and tempPassed record the
\* deployment attempt.
NoFleet == [none |-> TRUE]
NoCall == [name |-> "none"]

NoCycle ==
  [op |-> "none", cur |-> 0, target |-> NoVersion,
   newVersion |-> NoVersion, files |-> {}, hashes |-> <<>>,
   changedFiles |-> {}, addedFiles |-> {}, removedFiles |-> {},
   live0 |-> [f \in Paths |-> Absent],
   oldName |-> CApp, oldWasRunning |-> FALSE, tempPassed |-> FALSE]

\* the single app before the first command
Single0 ==
  /\ app = NoApp
  /\ nextPort = BasePort
  /\ live = [f \in Paths |-> Absent]
  /\ backups = <<>>
  /\ containers = {}
  /\ pc = "idle"
  /\ cyc = NoCycle
  /\ outcome = <<"none", "none">>
  /\ console = {}

Init ==
  /\ Single0
  /\ fleet = NoFleet
  /\ fn = NoCall

\* ---------------------------------------------------------------- createApp
\* analyzeDockerErrorAndFix between build attempts: the fix creates,
\* modifies or deletes (content Absent) allowed files.
Fixes ==
  UNION {[S -> 0..MaxContent] : S \in {T \in SUBSET Paths : Cardinality(T) <= MaxFix}}

ApplyFix(dir, fix) ==
  [f \in Paths |-> IF f \in DOMAIN fix THEN fix[f] ELSE dir[f]]

CUniq(port) == [kind |-> "uniq", v |-> <<0, 0, port - BasePort>>]

\* buildAndRunDocker, success path: stop and remove the container named
\* after the app, take a timestamped name when `docker ps -a --filter
\* name=<app>` still lists a container (the filter matches every name that
\* contains the app's name), and run the image on the port.
RunInitial(cs, port) ==
  LET rest == Remove(cs, CApp)
      name == IF rest = {} THEN CApp ELSE CUniq(port)
  IN  Run(rest, name, port)

\* appInfo: the entry createApp pushes. The entry itself has no
\* dockerStatus property ("undefined") until stopApp assigns one.
NewApp(dir, batch, port, dockerOk) ==
  [currentVersion |-> V100,
   dockerStatus |-> "undefined",
   port |-> IF dockerOk THEN port ELSE NoPort,
   versions |-> <<[version |-> V100,
                   containerName |-> CApp,
                   files |-> DOMAIN batch,
                   fileHashes |-> generateFileHashes(dir, DOMAIN batch),
                   isActive |-> dockerOk,
                   dockerStatus |-> IF dockerOk THEN "running" ELSE "failed",
                   parentVersion |-> NoVersion,
                   changedFiles |-> {},
                   addedFiles |-> DOMAIN batch,
                   removedFiles |-> {}]>>]

\* A faulty createApp without the check for an existing app: the entry of
\* the name is written again.
createAppOverwrites(batch, fix, dockerOk) ==
  /\ pc = "idle"
  /\ nextPort < BasePort + MaxPortAllocs
  /\ LET dir == ApplyFix(WriteFiles(live, batch), fix)
         port == nextPort
     IN  /\ live' = dir
         /\ nextPort' = port + 1
         /\ containers' = IF dockerOk THEN RunInitial(containers, port)
                          ELSE Remove(containers, CApp)
         /\ app' = NewApp(dir, batch, port, dockerOk)
         /\ outcome' = <<"create", IF dockerOk THEN "committed" ELSE "docker_failed">>
  /\ console' = {}
  /\ UNCHANGED <<backups, pc, cyc>>
  /\ UNCHANGED aux

\* createApp: when the ledger already has the app, say so and return; else
\* write the generated files, allocate the port, build and run the
\* container (with its automated fixes), then record v1.0.0.
createApp(batch, fix, dockerOk) ==
  /\ pc = "idle"
  /\ IF app # NoApp
     THEN /\ outcome' = <<"create", "exists">>
          /\ console' = {"already_exists"}
          /\ UNCHANGED <<app, nextPort, live, containers>>
     ELSE /\ nextPort < BasePort + MaxPortAllocs
          /\ LET dir == ApplyFix(WriteFiles(live, batch), fix)
                 port == nextPort
             IN  /\ live' = dir
                 /\ nextPort' = port + 1
                 /\ containers' = IF dockerOk THEN RunInitial(containers, port)
                                  ELSE Remove(containers, CApp)
                 /\ app' = NewApp(dir, batch, port, dockerOk)
                 /\ outcome' = <<"create", IF dockerOk THEN "committed" ELSE "docker_failed">>
          /\ console' = {}
  /\ UNCHANGED <<backups, pc, cyc>>
  /\ UNCHANGED aux

\* retryDockerBuild: a fresh port, buildAndRunDocker under the app's own
\* name, and the status written to the LAST entry of app.versions.
retryDockerBuild(fix, dockerOk) ==
  /\ pc = "idle"
  /\ app # NoApp
  /\ nextPort < BasePort + MaxPortAllocs
  /\ LET port == nextPort
         n == Len(app.versions)
     IN  /\ live' = ApplyFix(live, fix)
         /\ nextPort' = port + 1
         /\ containers' = IF dockerOk THEN RunInitial(containers, port)
                          ELSE Remove(containers, CApp)
         /\ app' = [app EXCEPT !.versions[n].dockerStatus =
                                  IF dockerOk THEN "running" ELSE "failed"]
         /\ outcome' = <<"retry", IF dockerOk THEN "committed" ELSE "docker_failed">>
  /\ console' = {}
  /\ UNCHANGED <<backups, pc, cyc>>
  /\ UNCHANGED aux

\* --------------------------------------------------- failure of a cycle
\* The version whose snapshot a catch block restores. improveApp uses the
\* entry it captured at its start; rollbackToVersion looks the current
\* version up again, in db.data as the failed step left it: after a failed
\* db.write the pointer in memory already names the target.
RestoreVersion(how) ==
  IF how = <<"rollback", "write_failed">> THEN cyc.target ELSE app.currentVersion

\* The status lines of a failing cycle: the caller's "Rolling back..."
\* line, the catch block's error line, the line restoreFromBackup prints,
\* and the line the catch block prints after restoreFromBackup returned.
FailureLines(how) ==
  (IF how = <<"improve", "build_failed">> THEN {"build_failed_rolling_back"} ELSE {})
  \cup (IF how = <<"improve", "deploy_failed">> THEN {"deploy_failed_rolling_back"} ELSE {})
  \cup (IF how[2] = "backup_failed" THEN {"backup_failed"} ELSE {})
  \cup (IF how[2] = "deploy_failed" /\ pc = "deploy_temphealth"
        THEN {"health_check_failed"} ELSE {})
  \cup (IF how[2] = "deploy_failed" /\ pc = "deploy_finalhealth"
        THEN {"final_health_check_failed"} ELSE {})
  \cup {IF how[1] = "improve" THEN "improvement_failed" ELSE "rollback_failed"}
  \cup {IF restoreOk(backups, app, RestoreVersion(how)) THEN "restored" ELSE "restore_failed"}
  \cup {IF how[1] = "improve" THEN "rollback_successful" ELSE "current_state_restored"}

\* A faulty failure path that would clear the isActive flag of the current
\* entry before giving up; C3 has to reject it.
CycleFailedClearsActive(cs, how) ==
  /\ live' = restoreFromBackup(backups, app, live, RestoreVersion(how))
  /\ containers' = cs
  /\ pc' = "idle"
  /\ outcome' = how
  /\ console' = console \cup FailureLines(how)
  /\ cyc' = NoCycle
  /\ app' = [app EXCEPT !.versions[getCurrentVersion(app)].isActive = FALSE]
  /\ UNCHANGED <<nextPort, backups>>

\* The catch blocks of improveApp and rollbackToVersion: restore the files
\* of the current version from its snapshot, leave the ledger alone.
CycleFailed(cs, how) ==
  /\ live' = restoreFromBackup(backups, app, live, RestoreVersion(how))
  /\ containers' = cs
  /\ pc' = "idle"
  /\ outcome' = how
  /\ console' = console \cup FailureLines(how)
  /\ cyc' = NoCycle
  /\ UNCHANGED <<app, nextPort, backups>>

Stage(how) == IF cyc.op = "improve" THEN <<"improve", how>> ELSE <<"rollback", how>>

\* ---------------------------------------------------------------- improveApp
\* improveApp up to the snapshot of the current version.
ImproveBegin(backupOk, cap) ==
  /\ pc = "idle"
  /\ app # NoApp
  /\ getCurrentVersion(app) # 0
  /\ Len(app.versions) < cap
  /\ LET cur == getCurrentVersion(app)
         c0 == [NoCycle EXCEPT !.op = "improve", !.cur = cur, !.live0 = live]
     IN  IF backupOk
         THEN /\ backups' = createBackup(backups, app, live, app.versions[cur].version)
              /\ cyc' = c0
              /\ pc' = "generate"
              /\ console' = {"backup_created"}
              /\ UNCHANGED <<app, nextPort, live, containers, outcome>>
         ELSE /\ live' = restoreFromBackup(backups, app, live, app.currentVersion)
              /\ cyc' = NoCycle
              /\ pc' = "idle"
              /\ outcome' = <<"improve", "backup_failed">>
              /\ console' = FailureLines(<<"improve", "backup_failed">>)
              /\ UNCHANGED <<app, nextPort, backups, containers>>
  /\ UNCHANGED aux

\* improveApp from the generation call to the new version number.
ImproveGenerate(llmOk, batch) ==
  /\ pc = "generate"
  /\ cyc.op = "improve"
  /\ IF ~llmOk
     THEN CycleFailed(containers, <<"improve", "generation_failed">>)
     ELSE LET cur == app.versions[cyc.cur]
              dir == WriteFiles(live, batch)
              allFiles == cur.files \cup DOMAIN batch
              newFileHashes == generateFileHashes(dir, allFiles)
              d == detectChangedFiles(cur.fileHashes, newFileHashes)
          IN  /\ live' = dir
              /\ UNCHANGED <<app, nextPort, backups, containers>>
              /\ IF d.changedFiles = {} /\ d.addedFiles = {} /\ d.removedFiles = {}
                 THEN /\ pc' = "idle"
                      /\ outcome' = <<"improve", "no_changes">>
                      /\ console' = console \cup {"no_changes"}
                      /\ cyc' = NoCycle
                 ELSE /\ pc' = "build"
                      /\ outcome' = outcome
                      /\ console' = console
                      /\ cyc' = [cyc EXCEPT
                           !.newVersion = calculateSemanticVersion(
                              cur.version, "minor", d.changedFiles \cup d.addedFiles),
                           !.files = allFiles,
                           !.hashes = newFileHashes,
                           !.changedFiles = d.changedFiles,
                           !.addedFiles = d.addedFiles,
                           !.removedFiles = d.removedFiles]
  /\ UNCHANGED aux

\* buildVersionedContainer and the caller's handling of its failure.
BuildVersioned(buildOk) ==
  /\ pc = "build"
  /\ IF buildOk
     THEN /\ pc' = "deploy_portcheck"
          /\ UNCHANGED <<app, nextPort, live, backups, containers, cyc, outcome, console>>
     ELSE CycleFailed(containers, Stage("build_failed"))
  /\ UNCHANGED aux

\* ---------------------------------------------------- deployWithBlueGreen
NewName == CVer(cyc.newVersion)
OldName == app.versions[getCurrentVersion(app)].containerName
TempPort(port) == port + TempOffset

\* the catch block of deployWithBlueGreen, then the caller's
DeployFailed(cs) == CycleFailed(Remove(cs, NewName), Stage("deploy_failed"))

\* 1. lsof on the production port; when it reports the port in use, every
\*    container publishing the port is stopped and removed.
DeployPortCheck(lsofSees) ==
  /\ pc = "deploy_portcheck"
  /\ cyc' = [cyc EXCEPT !.oldName = OldName,
                        !.oldWasRunning = Running(containers, OldName)]
  /\ containers' = IF lsofSees /\ app.port # NoPort /\ OnPort(containers, app.port) # {}
                   THEN RemovePublishing(containers, app.port)
                   ELSE containers
  /\ pc' = "deploy_runtemp"
  /\ UNCHANGED <<app, nextPort, live, backups, outcome, console>>
  /\ UNCHANGED aux

\* A faulty step 2 that starts the new container on the production port
\* right away, before any health check.
DeployRunTempOnProduction(engineOk) ==
  /\ pc = "deploy_runtemp"
  /\ IF engineOk /\ CanRun(containers, NewName, app.port)
     THEN /\ containers' = Run(containers, NewName, app.port)
          /\ pc' = "deploy_temphealth"
          /\ UNCHANGED <<app, nextPort, live, backups, cyc, outcome, console>>
     ELSE DeployFailed(containers)
  /\ UNCHANGED aux

\* 2. docker run of the new container on the temporary port
DeployRunTemp(engineOk) ==
  /\ pc = "deploy_runtemp"
  /\ IF engineOk /\ CanRun(containers, NewName, TempPort(app.port))
     THEN /\ containers' = Run(containers, NewName, TempPort(app.port))
          /\ pc' = "deploy_temphealth"
          /\ UNCHANGED <<app, nextPort, live, backups, cyc, outcome, console>>
     ELSE DeployFailed(containers)
  /\ UNCHANGED aux

\* 3. health check on the temporary port
DeployTempHealth(healthOk) ==
  /\ pc = "deploy_temphealth"
  /\ IF healthOk
     THEN /\ cyc' = [cyc EXCEPT !.tempPassed = TRUE]
          /\ pc' = "deploy_stopold"
          /\ UNCHANGED <<app, nextPort, live, backups, containers, outcome, console>>
     ELSE DeployFailed(containers)
  /\ UNCHANGED aux

\* 4. stop and remove the container of the current version
DeployStopOld ==
  /\ pc = "deploy_stopold"
  /\ containers' = Remove(containers, OldName)
  /\ pc' = "deploy_rebind"
  /\ UNCHANGED <<app, nextPort, live, backups, cyc, outcome, console>>
  /\ UNCHANGED aux

\* 5. stop, remove and re-run the new container on the production port;
\*    docker stop throws when step 4 has removed a container of that name
DeployRebind(engineOk) ==
  /\ pc = "deploy_rebind"
  /\ LET rest == Remove(containers, NewName)
     IN  IF engineOk /\ Has(containers, NewName) /\ CanRun(rest, NewName, app.port)
         THEN /\ containers' = Run(rest, NewName, app.port)
              /\ pc' = "deploy_finalhealth"
              /\ UNCHANGED <<app, nextPort, live, backups, cyc, outcome, console>>
         ELSE DeployFailed(rest)
  /\ UNCHANGED aux

\* A faulty step 6 that, on a failed check, would put the previous version's
\* container back on the production port in place of the new one.
DeployFinalHealthResurrects(healthOk) ==
  /\ pc = "deploy_finalhealth"
  /\ IF healthOk
     THEN /\ pc' = "commit"
          /\ UNCHANGED <<app, nextPort, live, backups, containers, cyc, outcome, console>>
     ELSE DeployFailed(Run(Remove(Remove(containers, NewName), cyc.oldName),
                          cyc.oldName, app.port))
  /\ UNCHANGED aux

\* 6. final health check on the production port
DeployFinalHealth(healthOk) ==
  /\ pc = "deploy_finalhealth"
  /\ IF healthOk
     THEN /\ pc' = "commit"
          /\ UNCHANGED <<app, nextPort, live, backups, containers, cyc, outcome, console>>
     ELSE DeployFailed(containers)
  /\ UNCHANGED aux

\* ------------------------------------------------------------- the commits
\* improveApp step 8: the captured entry is marked inactive, the new entry
\* is pushed, the pointer is moved, and the ledger is written.
ImproveLedger(a) ==
  LET cur == a.versions[cyc.cur]
      newVersionData ==
        [version |-> cyc.newVersion,
         containerName |-> CVer(cyc.newVersion),
         files |-> cyc.files,
         fileHashes |-> cyc.hashes,
         isActive |-> TRUE,
         dockerStatus |-> "running",
         parentVersion |-> cur.version,
         changedFiles |-> cyc.changedFiles,
         addedFiles |-> cyc.addedFiles,
         removedFiles |-> cyc.removedFiles]
  IN  [a EXCEPT !.versions = Append([@ EXCEPT ![cyc.cur].isActive = FALSE],
                                    newVersionData),
                !.currentVersion = cyc.newVersion]

\* A faulty commit whose failed write leaves the flag flip in the persisted
\* ledger; C16 has to reject it.
ImproveCommitTorn(writeOk) ==
  /\ pc = "commit"
  /\ cyc.op = "improve"
  /\ IF writeOk
     THEN /\ app' = ImproveLedger(app)
          /\ pc' = "idle"
          /\ outcome' = <<"improve", "committed">>
          /\ console' = console \cup {"improved"}
          /\ cyc' = NoCycle
          /\ UNCHANGED <<nextPort, live, backups, containers>>
     ELSE /\ app' = [app EXCEPT !.versions[cyc.cur].isActive = FALSE]
          /\ live' = restoreFromBackup(backups, app, live, app.currentVersion)
          /\ pc' = "idle"
          /\ outcome' = <<"improve", "write_failed">>
          /\ console' = console \cup FailureLines(<<"improve", "write_failed">>)
          /\ cyc' = NoCycle
          /\ UNCHANGED <<nextPort, backups, containers>>
  /\ UNCHANGED aux

\* improveApp step 8 with its db.write: a write that fails throws into the
\* catch block and leaves apps.json as it was.
ImproveCommit(writeOk) ==
  /\ pc = "commit"
  /\ cyc.op = "improve"
  /\ IF writeOk
     THEN /\ app' = ImproveLedger(app)
          /\ pc' = "idle"
          /\ outcome' = <<"improve", "committed">>
          /\ console' = console \cup {"improved"}
          /\ cyc' = NoCycle
          /\ UNCHANGED <<nextPort, live, backups, containers>>
     ELSE CycleFailed(containers, <<"improve", "write_failed">>)
  /\ UNCHANGED aux

\* ------------------------------------------------------- rollbackToVersion
\* rollbackToVersion up to the restore of the target's files.
RollbackBegin(targetVersion, backupOk) ==
  /\ pc = "idle"
  /\ app # NoApp
  /\ FindIndex(app.versions, targetVersion) # 0
  /\ targetVersion # app.currentVersion
  /\ LET cur == getCurrentVersion(app)
         bk == IF backupOk
               THEN createBackup(backups, app, live, app.versions[cur].version)
               ELSE backups
         c0 == [NoCycle EXCEPT !.op = "rollback", !.cur = cur,
                               !.target = targetVersion,
                               !.newVersion = targetVersion,
                               !.live0 = live]
     IN  /\ backups' = bk
         /\ UNCHANGED <<app, nextPort, containers>>
         /\ IF restoreOk(bk, app, targetVersion)
            THEN /\ live' = restoreFromBackup(bk, app, live, targetVersion)
                 /\ cyc' = c0
                 /\ pc' = "build"
                 /\ outcome' = outcome
                 /\ console' = {IF backupOk THEN "backup_created" ELSE "backup_failed",
                                 "restored"}
            ELSE /\ live' = restoreFromBackup(bk, app, live, app.currentVersion)
                 /\ cyc' = NoCycle
                 /\ pc' = "idle"
                 /\ outcome' = <<"rollback", "restore_failed">>
                 /\ console' = {IF backupOk THEN "backup_created" ELSE "backup_failed",
                                 "restore_failed", "rollback_failed",
                                 IF restoreOk(bk, app, app.currentVersion)
                                 THEN "restored" ELSE "restore_failed",
                                 "current_state_restored"}
  /\ UNCHANGED aux

\* rollbackToVersion step 5
RollbackLedger(a) ==
  LET t == FindIndex(a.versions, cyc.target)
  IN  [a EXCEPT !.versions = [[@ EXCEPT ![cyc.cur].isActive = FALSE]
                                 EXCEPT ![t].isActive = TRUE,
                                        ![t].dockerStatus = "running",
                                        ![t].containerName = CVer(cyc.target)],
                !.currentVersion = cyc.target]

RollbackCommit(writeOk) ==
  /\ pc = "commit"
  /\ cyc.op = "rollback"
  /\ IF writeOk
     THEN /\ app' = RollbackLedger(app)
          /\ pc' = "idle"
          /\ outcome' = <<"rollback", "committed">>
          /\ console' = console \cup {"rolled_back"}
          /\ cyc' = NoCycle
          /\ UNCHANGED <<nextPort, live, backups, containers>>
     ELSE CycleFailed(containers, <<"rollback", "write_failed">>)
  /\ UNCHANGED aux

VersionIds == {<<1, m, p>> : m \in 0..MaxLineage, p \in 0..MaxLineage}

\* One step of a command. Env is the set of outcomes of the external
\* collaborators (file system, generation call, container engine, health
\* probe, ledger write): TRUE is success. cap bounds Len(app.versions).
Step(Env, cap) ==
  \/ \E batch \in Batches \ {<<>>}, ok \in Env : createApp(batch, <<>>, ok)
  \/ \E ok \in Env : ImproveBegin(ok, cap)
  \/ \E ok \in Env, batch \in Batches : ImproveGenerate(ok, batch)
  \/ \E ok \in Env : BuildVersioned(ok)
  \/ \E sees \in BOOLEAN : DeployPortCheck(sees)
  \/ \E ok \in Env : DeployRunTemp(ok)
  \/ \E ok \in Env : DeployTempHealth(ok)
  \/ DeployStopOld
  \/ \E ok \in Env : DeployRebind(ok)
  \/ \E ok \in Env : DeployFinalHealth(ok)
  \/ \E ok \in Env : ImproveCommit(ok)
  \/ \E t \in VersionIds, ok \in Env : RollbackBegin(t, ok)
  \/ \E ok \in Env : RollbackCommit(ok)

\* createApp, improveApp and rollbackToVersion with every collaborator
\* free to fail.
Next == Step(BOOLEAN, MaxVersions)

Spec == Init /\ [][Next]_vars

\* The same commands in the runs where no collaborator fails, over longer
\* version histories.
NextNoFaults == Step({TRUE}, MaxLineage)

SpecNoFaults == Init /\ [][NextNoFaults]_vars

\* The steps of a cycle that are bound to end. A step gets a fairness
\* condition when nothing it waits for can hang: the ledger write is a
\* local file operation, docker build runs under execSync's timeout of
\* 300000 ms, and the health probe under AbortSignal.timeout / setTimeout.
\* The generation call (fetch), lsof, docker run, docker stop and docker rm
\* are started without a timeout, so a behaviour may wait for them forever.
Fairness ==
  /\ WF_vars(\E ok \in BOOLEAN : BuildVersioned(ok))
  /\ WF_vars(\E ok \in BOOLEAN : DeployTempHealth(ok))
  /\ WF_vars(\E ok \in BOOLEAN : DeployFinalHealth(ok))
  /\ WF_vars(\E ok \in BOOLEAN : ImproveCommit(ok))
  /\ WF_vars(\E ok \in BOOLEAN : RollbackCommit(ok))

SpecLive == Init /\ [][Next]_vars /\ Fairness

\* All commands, with retryDockerBuild and the automated fixes of
\* buildAndRunDocker.
NextAll ==
  \/ Next
  \/ \E batch \in Batches \ {<<>>}, fix \in Fixes, ok \in BOOLEAN :
       createApp(batch, fix, ok)
  \/ \E fix \in Fixes, ok \in BOOLEAN : retryDockerBuild(fix, ok)

SpecAll == Init /\ [][NextAll]_vars

\* ================================================================ fleet
\* Several apps in one apps.json, and CLI processes that run at the same
\* time. A process reads the whole file into db.data when it starts
\* (db.read) and db.write replaces the whole file with its db.data.
AppNames == {"a", "b"}
Procs == {1, 2}
Commands == {"create", "improve", "remove"}
NoEntry == [none |-> TRUE]
NoData == [none |-> TRUE]

\* defaultData
Disk0 == [nextPort |-> BasePort, apps |-> [a \in AppNames |-> NoEntry]]

ProcOff == [pc |-> "off", cmd |-> "none", app |-> "a", data |-> NoData,
            port |-> NoPort, wrote |-> 0]

\* a process that has ended: wrote is the length of the versions list it
\* committed, 0 when it committed nothing
ProcDone(cmd, a, n) ==
  [pc |-> "done", cmd |-> cmd, app |-> a, data |-> NoData, port |-> NoPort,
   wrote |-> n]

\* bound: the host ports published by containers, [port, app, kind] with
\* kind "app" for the container named after the app and "ver" for a
\* versioned one; allocs counts the calls of findAvailablePort.
Fleet0 ==
  [disk |-> Disk0, procs |-> [p \in Procs |-> ProcOff], bound |-> {}, allocs |-> 0]

InitFleet ==
  /\ Single0
  /\ fleet = Fleet0
  /\ fn = NoCall

BoundPorts == {b.port : b \in fleet.bound}

\* findAvailablePort: the first port from startPort on that lsof reports
\* free, within maxAttempts tries.
findAvailablePort(startPort) ==
  CHOOSE q \in startPort..(startPort + MaxAttempts - 1) :
    /\ q \notin BoundPorts
    /\ \A r \in startPort..(q - 1) : r \in BoundPorts

\* the process starts: db.read, then the command's own lookups
FleetLaunch(p, cmd, a) ==
  /\ fleet # NoFleet
  /\ fleet.procs[p].pc \in {"off", "done"}
  /\ LET data == fleet.disk
         entry == data.apps[a]
     IN  /\ cmd = "create" => entry = NoEntry
         /\ cmd = "improve" => entry # NoEntry /\ entry.versions < MaxFleetVersions
         /\ cmd = "remove" => entry # NoEntry
         /\ fleet' = [fleet EXCEPT !.procs[p] =
              [pc |-> CASE cmd = "create" -> "alloc"
                        [] cmd = "improve" -> "backup"
                        [] OTHER -> "remove",
               cmd |-> cmd, app |-> a, data |-> data, port |-> NoPort, wrote |-> 0]]
  /\ UNCHANGED <<single, fn>>

\* createApp: findAvailablePort(db.data.nextPort), nextPort = port + 1;
\* the `skip` ports from nextPort on are held by other software.
FleetAllocate(p, skip, cap) ==
  /\ fleet # NoFleet
  /\ fleet.procs[p].pc = "alloc"
  /\ fleet.allocs < cap
  /\ LET me == fleet.procs[p]
         port == findAvailablePort(me.data.nextPort + skip)
     IN  fleet' = [fleet EXCEPT !.procs[p].data.nextPort = port + 1,
                                !.procs[p].port = port,
                                !.procs[p].pc = "run",
                                !.allocs = @ + 1]
  /\ UNCHANGED <<single, fn>>

\* createApp: buildAndRunDocker (the container named after the app is
\* replaced), the app's entry is pushed and the ledger is written.
FleetRun(p, dockerOk) ==
  /\ fleet # NoFleet
  /\ fleet.procs[p].pc = "run"
  /\ LET me == fleet.procs[p]
         rest == {b \in fleet.bound : ~(b.app = me.app /\ b.kind = "app")}
         ok == dockerOk /\ me.port \notin {b.port : b \in rest}
         data == [me.data EXCEPT !.apps[me.app] =
                    [port |-> IF ok THEN me.port ELSE NoPort, versions |-> 1]]
     IN  fleet' = [fleet EXCEPT
                     !.bound = IF ok
                               THEN rest \cup {[port |-> me.port, app |-> me.app,
                                                kind |-> "app"]}
                               ELSE rest,
                     !.disk = data,
                     !.procs[p] = ProcDone("create", me.app, 1)]
  /\ UNCHANGED <<single, fn>>

\* removeApp: stop and remove the container named after the app, splice
\* the entry out of db.data.apps, write the ledger.
FleetRemove(p) ==
  /\ fleet # NoFleet
  /\ fleet.procs[p].pc = "remove"
  /\ LET me == fleet.procs[p]
         data == [me.data EXCEPT !.apps[me.app] = NoEntry]
     IN  fleet' = [fleet EXCEPT
                     !.bound = {b \in @ : ~(b.app = me.app /\ b.kind = "app")},
                     !.disk = data,
                     !.procs[p] = ProcDone("remove", me.app, 0)]
  /\ UNCHANGED <<single, fn>>

\* improveApp: the snapshot of the current version, the generation and
\* the build
FleetBackup(p, ok) ==
  /\ fleet # NoFleet
  /\ fleet.procs[p].pc = "backup"
  /\ LET me == fleet.procs[p]
     IN  fleet' = [fleet EXCEPT !.procs[p] =
                     IF ok THEN [me EXCEPT !.pc = "deploy"]
                     ELSE ProcDone("improve", me.app, 0)]
  /\ UNCHANGED <<single, fn>>

\* improveApp: deployWithBlueGreen on app.port. On success the containers
\* that published the port are gone and the new versioned container
\* publishes it; on failure the new container is removed, and the old one
\* too when the attempt had come as far as stopping it.
FleetDeploy(p, ok, oldGone) ==
  /\ fleet # NoFleet
  /\ fleet.procs[p].pc = "deploy"
  /\ LET me == fleet.procs[p]
         port == me.data.apps[me.app].port
         rest == {b \in fleet.bound : b.port # port}
     IN  IF ok /\ port # NoPort
         THEN fleet' = [fleet EXCEPT
                          !.bound = rest \cup {[port |-> port, app |-> me.app,
                                                kind |-> "ver"]},
                          !.procs[p].pc = "commit"]
         ELSE fleet' = [fleet EXCEPT
                          !.bound = IF oldGone THEN rest ELSE @,
                          !.procs[p] = ProcDone("improve", me.app, 0)]
  /\ UNCHANGED <<single, fn>>

\* improveApp step 8: the new version is pushed in db.data, db.write
FleetCommit(p, writeOk) ==
  /\ fleet # NoFleet
  /\ fleet.procs[p].pc = "commit"
  /\ LET me == fleet.procs[p]
         data == [me.data EXCEPT !.apps[me.app].versions = @ + 1]
     IN  IF writeOk
         THEN fleet' = [fleet EXCEPT
                          !.disk = data,
                          !.procs[p] = ProcDone("improve", me.app,
                                                data.apps[me.app].versions)]
         ELSE fleet' = [fleet EXCEPT !.procs[p] = ProcDone("improve", me.app, 0)]
  /\ UNCHANGED <<single, fn>>

\* One step of one of the processes Ps; Sk are the numbers of ports that
\* other software may hold in front of a free one, cap bounds the port
\* allocations.
FleetStep(Ps, Sk, cap) ==
  \/ \E p \in Ps, cmd \in Commands, a \in AppNames : FleetLaunch(p, cmd, a)
  \/ \E p \in Ps, skip \in Sk : FleetAllocate(p, skip, cap)
  \/ \E p \in Ps, ok \in BOOLEAN : FleetRun(p, ok)
  \/ \E p \in Ps : FleetRemove(p)
  \/ \E p \in Ps, ok \in BOOLEAN : FleetBackup(p, ok)
  \/ \E p \in Ps, ok \in BOOLEAN, oldGone \in BOOLEAN : FleetDeploy(p, ok, oldGone)
  \/ \E p \in Ps, ok \in BOOLEAN : FleetCommit(p, ok)

\* two processes at the same time
NextFleet == FleetStep(Procs, {0}, MaxFleetAllocs)

SpecFleet == InitFleet /\ [][NextFleet]_vars

\* createApp and removeApp one after the other, on a host where other
\* software may hold up to maxAttempts - 1 ports in front of the next free
\* one
NextPorts ==
  \/ \E cmd \in {"create", "remove"}, a \in AppNames : FleetLaunch(1, cmd, a)
  \/ \E skip \in {0, MaxAttempts - 1} : FleetAllocate(1, skip, MaxPortRuns)
  \/ \E ok \in BOOLEAN : FleetRun(1, ok)
  \/ FleetRemove(1)

SpecPorts == InitFleet /\ [][NextPorts]_vars

\* ================================================================ claims
Idle == pc = "idle" /\ app # NoApp
Indices == 1..Len(app.versions)
ActiveIndices == {i \in Indices : app.versions[i].isActive}
Failures == {"backup_failed", "generation_failed", "build_failed",
             "deploy_failed", "write_failed", "restore_failed"}
DeployPcs == {"deploy_runtemp", "deploy_temphealth", "deploy_stopold",
              "deploy_rebind", "deploy_finalhealth"}

\* vMAJOR.MINOR.PATCH order
VLess(a, b) ==
  \/ a[1] < b[1]
  \/ a[1] = b[1] /\ a[2] < b[2]
  \/ a[1] = b[1] /\ a[2] = b[2] /\ a[3] < b[3]

\* the ledger commit of a successful improveApp / rollbackToVersion
ImproveCommitted ==
  pc = "commit" /\ cyc.op = "improve" /\ outcome' = <<"improve", "committed">>
RollbackCommitted ==
  pc = "commit" /\ cyc.op = "rollback" /\ outcome' = <<"rollback", "committed">>

\* C1: after every completed command at most one entry of the app's
\* versions list has isActive = true.
C1_AtMostOneActive == Idle => Cardinality(ActiveIndices) <= 1

\* C2: during a blue-green attempt the container of the previously active
\* version, if it ran when the attempt began, keeps running until the new
\* container has passed the health check on the temporary port; and an
\* attempt that ends at a failed temp-port health check leaves that
\* container's running state as it was before the attempt.
C2_OldContainerUntouched ==
  /\ [](pc \in DeployPcs /\ cyc.oldWasRunning /\ ~cyc.tempPassed
          => Running(containers, cyc.oldName))
  /\ [][pc = "deploy_temphealth" /\ pc' = "idle"
          => Running(containers', cyc.oldName) = cyc.oldWasRunning]_vars

\* C3: every step of an improve cycle other than its successful commit
\* leaves the ledger as it is, so a cycle that fails at the build or the
\* deploy stage appends no entry, keeps the currentVersion pointer and
\* writes no isActive flag.
C3_FailedImproveKeepsLedger ==
  [][(\/ pc = "idle" /\ pc' = "generate"
      \/ pc # "idle" /\ cyc.op = "improve" /\ ~ImproveCommitted
      \/ outcome' \in {<<"improve", "build_failed">>, <<"improve", "deploy_failed">>})
     => app' = app]_vars

\* C3 witness: an improve cycle has failed at the deploy stage after the
\* blue-green attempt had stopped the previous container.
C3_Witness ==
  /\ Idle
  /\ outcome = <<"improve", "deploy_failed">>
  /\ containers = {}
  /\ ActiveIndices # {}

\* C4: when improveApp fails at the build stage, the live directory is
\* afterwards what it was when the cycle started, which is the content of
\* the previous version's snapshot.
C4_FailedBuildRestoresLive ==
  [][pc = "build" /\ cyc.op = "improve" /\ pc' = "idle"
       => /\ live' = cyc.live0
          /\ \A f \in Paths :
               backups[app.currentVersion][f] # Absent
                 => live'[f] = backups[app.currentVersion][f]]_vars

\* C5: whenever no cycle is in progress, every version the ledger marks
\* active and running has its recorded container running on the app's
\* production port.
C5_ActiveServesPort ==
  Idle => \A i \in ActiveIndices :
            app.versions[i].dockerStatus = "running"
              => \E c \in containers :
                   /\ c.name = app.versions[i].containerName
                   /\ c.running
                   /\ c.port = app.port

\* C6: a successful improveApp from active version p appends exactly one
\* entry n with parentVersion = p's identifier and isActive = true, leaves
\* p inactive, points currentVersion at n, and records as changedFiles /
\* addedFiles exactly the paths whose fingerprint differs from / is absent
\* from p's fileHashes.
C6_ImproveCommitShape ==
  [][ImproveCommitted =>
       \A p \in ActiveIndices :
         LET n == app'.versions[Len(app'.versions)]
             old == app.versions[p].fileHashes
         IN  /\ Len(app'.versions) = Len(app.versions) + 1
             /\ n.parentVersion = app.versions[p].version
             /\ n.isActive
             /\ ~app'.versions[p].isActive
             /\ app'.currentVersion = n.version
             /\ n.changedFiles = {f \in DOMAIN n.fileHashes :
                                    f \in DOMAIN old /\ old[f] # n.fileHashes[f]}
             /\ n.addedFiles = {f \in DOMAIN n.fileHashes : f \notin DOMAIN old}]_vars

\* C7: a successful rollbackToVersion(app, t) from active version c leaves
\* t active and c inactive, points currentVersion at t, and the live
\* directory fingerprints to exactly t's recorded fileHashes.
C7_RollbackCommitShape ==
  [][RollbackCommitted =>
       LET t == FindIndex(app.versions, cyc.target)
       IN  /\ app'.versions[t].isActive
           /\ \A c \in ActiveIndices : c # t => ~app'.versions[c].isActive
           /\ app'.currentVersion = cyc.target
           /\ generateFileHashes(live', app.versions[t].files)
                = app.versions[t].fileHashes]_vars

\* C8: whenever restoreFromBackup(app, v) reports success, fingerprinting
\* v's file list in the live directory right afterwards gives exactly the
\* fileHashes recorded for v.
RoundTrip(dir, v) ==
  LET e == app.versions[FindIndex(app.versions, v)]
  IN  generateFileHashes(dir, e.files) = e.fileHashes

C9_VersionsIncrease ==
  app # NoApp =>
    \A i, j \in Indices : i < j => VLess(app.versions[i].version, app.versions[j].version)

\* C10: after every completed command, when some entry is active, the
\* entry getCurrentVersion returns is that active entry.
C10_CurrentIsActiveEntry ==
  Idle => \A i \in ActiveIndices : getCurrentVersion(app) = i

\* ------------------------------------------------------ healthCheckContainer
\* Container names are sequences of fragments, so that one name can be part
\* of another: todo-v1.1.0, my-todo-v1.1.0, shop-v1.1.0.
HealthNames == {<<"todo", "-v1.1.0">>, <<"my-", "todo", "-v1.1.0">>, <<"shop", "-v1.1.0">>}

\* String.prototype.includes
includes(hay, needle) ==
  \E i \in 1..(Len(hay) - Len(needle) + 1) : SubSeq(hay, i, i + Len(needle) - 1) = needle

\* docker ps --filter "name=<filter>" --format "{{.Names}}": one line for
\* each running container whose name contains the filter.
RECURSIVE Lines(_)
Lines(names) ==
  IF names = {} THEN <<>>
  ELSE LET n == CHOOSE x \in names : TRUE
       IN  n \o <<"\n">> \o Lines(names \ {n})

dockerPs(running, filter) == Lines({n \in running : includes(n, filter)})

\* The engine's answer to docker ps: a listing, a non-zero exit, or nothing
\* at all (execSync is called without a timeout).
EngineAnswers == {"listing", "error", "silent"}

\* The probed port: what answers the HEAD request and after how many
\* seconds; a latency beyond every timer stands for a port that never answers.
ProbeOutcomes == {"ok", "status", "network_error"}
ProbeLatencies == {0, 12, 13, 14, 20}
Probes == [outcome : ProbeOutcomes, at : ProbeLatencies]

\* healthCheckContainer(containerName, port): the value it returns and the
\* seconds it took, or "hangs".
healthCheckContainer(containerName, engine, running, probe) ==
  IF engine = "silent" THEN [value |-> "hangs", elapsed |-> 0]
  ELSE IF engine = "error" THEN [value |-> "false", elapsed |-> 0]
  ELSE IF ~includes(dockerPs(running, containerName), containerName)
       THEN [value |-> "false", elapsed |-> 0]
  ELSE LET abortAt == TimeoutSec - AbortBuffer
       IN  IF probe.at < abortAt /\ probe.at < TimeoutSec
           THEN [value |-> IF probe.outcome = "ok" THEN "true" ELSE "false",
                 elapsed |-> StartupWait + probe.at]
           ELSE [value |-> "false", elapsed |-> StartupWait + abortAt]

HealthCalls ==
  [name : {"healthCheckContainer"}, phase : {"called"},
   containerName : HealthNames, engine : EngineAnswers,
   running : SUBSET HealthNames, probe : Probes,
   result : {[value |-> "none", elapsed |-> 0]}]

InitHealth == Single0 /\ fleet = NoFleet /\ fn \in HealthCalls

HealthCheck ==
  /\ fn.name = "healthCheckContainer"
  /\ fn.phase = "called"
  /\ fn' = [fn EXCEPT !.phase = "done",
                      !.result = healthCheckContainer(fn.containerName, fn.engine,
                                                      fn.running, fn.probe)]
  /\ UNCHANGED <<single, fleet>>

NextHealth == HealthCheck
SpecHealth == InitHealth /\ [][NextHealth]_vars

\* C11: when the restore that follows a failed improve cycle itself fails
\* (restoreFromBackup returned false), improveApp does not print that the
\* rollback was successful.
C11_FailedRestoreIsFatal ==
  (Idle /\ outcome[1] = "improve" /\ "restore_failed" \in console)
    => "rollback_successful" \notin console

\* C12: when the snapshot of the current version that improveApp or
\* rollbackToVersion takes at its start fails, the command ends there with
\* an error and has overwritten no file of the live directory.
C12_NoOverwriteWithoutSnapshot ==
  [][(pc = "idle" /\ "backup_failed" \in console')
       => /\ live' = live
          /\ pc' = "idle"
          /\ outcome'[2] \in Failures]_vars

\* C13: when improve cycles on two different apps, each in its own
\* process, have both committed, the persisted ledger holds both new
\* versions.
C13_BothCommitsPersist ==
  fleet # NoFleet =>
    \A p, q \in Procs :
      LET P == fleet.procs[p]
          Q == fleet.procs[q]
      IN  (/\ p # q
           /\ P.pc = "done" /\ P.cmd = "improve" /\ P.wrote > 0
           /\ Q.pc = "done" /\ Q.cmd = "improve" /\ Q.wrote > 0
           /\ P.app # Q.app)
          => /\ fleet.disk.apps[P.app] # NoEntry
             /\ fleet.disk.apps[P.app].versions = P.wrote

\* C14: the production ports and the temporary ports (production port +
\* 1000) of two different apps of the ledger never coincide.
HostPorts(a) ==
  LET e == fleet.disk.apps[a]
  IN  IF e = NoEntry \/ e.port = NoPort THEN {} ELSE {e.port, TempPort(e.port)}

C14_PortsNeverCoincide ==
  fleet # NoFleet =>
    \A a, b \in AppNames : a # b => HostPorts(a) \cap HostPorts(b) = {}

\* C15: two improve cycles on the same app are never both past their
\* backup step at the same time.
InCycle(p) ==
  fleet.procs[p].cmd = "improve" /\ fleet.procs[p].pc \in {"deploy", "commit"}

C15_SameAppSerialized ==
  fleet # NoFleet =>
    \A p, q \in Procs :
      (p # q /\ InCycle(p) /\ InCycle(q))
        => fleet.procs[p].app # fleet.procs[q].app

\* C16: when db.write fails at the commit step of improveApp, the command
\* does not print that the app was improved, it prints the failure, and
\* the persisted ledger is exactly what it was: no flag flipped, no entry
\* appended, the pointer not moved.
C16_FailedWriteCommitsNothing ==
  [][(pc = "commit" /\ cyc.op = "improve" /\ outcome' = <<"improve", "write_failed">>)
       => /\ app' = app
          /\ "improved" \notin console'
          /\ "improvement_failed" \in console']_vars

\* C16 witness: an improve cycle whose deployment went through has ended
\* with a failed ledger write.
C16_Witness ==
  /\ Idle
  /\ outcome = <<"improve", "write_failed">>
  /\ \E c \in containers : c.name # CApp /\ c.running /\ c.port = app.port

\* C17: every improve cycle that has started ends, with its commit or with
\* its rollback, whatever the external collaborators do.
C17_ImproveTerminates == (cyc.op = "improve") ~> (pc = "idle")

\* C18: a deployment attempt reports success only from its final health
\* check, passed by the new container on the production port, after the
\* health check on the temporary port (production port + 1000) had passed
\* on the new container bound there; and no step binds the new container
\* to the production port before the temp-port check has passed.
BoundTo(cs, n, p) == \E c \in cs : c.name = n /\ c.port = p /\ c.running

C18_HealthChecksInOrder ==
  /\ [][(pc # "commit" /\ pc' = "commit")
          => /\ pc = "deploy_finalhealth"
             /\ cyc.tempPassed
             /\ BoundTo(containers, NewName, app.port)]_vars
  /\ [][(~cyc.tempPassed /\ cyc'.tempPassed)
          => /\ pc = "deploy_temphealth"
             /\ BoundTo(containers, NewName, TempPort(app.port))]_vars
  /\ [][(pc \in DeployPcs \cup {"deploy_portcheck"}
           /\ \E c \in containers' \ containers : c.name = NewName /\ c.port = app.port)
          => (pc = "deploy_rebind" /\ cyc.tempPassed)]_vars

\* C18 witness: a deployment attempt has reported success.
C18_Witness ==
  /\ pc = "commit"
  /\ cyc.tempPassed
  /\ BoundTo(containers, NewName, app.port)

C20_HealthCheckContract ==
  (fn.name = "healthCheckContainer" /\ fn.phase = "done")
    => /\ fn.result.value \in {"true", "false"}
       /\ fn.result.value = "true"
            => /\ fn.engine = "listing"
               /\ fn.containerName \in fn.running
               /\ fn.probe.outcome = "ok"
               /\ fn.result.elapsed < TimeoutSec

\* -------------------------------------------------------- buildAndRunDocker
\* One call of buildAndRunDocker(appName, appPath, port), every caller with
\* maxRetries = 3.  An error is known by the attempt that raised it and by
\* the statement that threw; captured logs by the attempt they were taken in.
BuildOutcomes == {"ok", "build_error", "invalid_port", "start_failed"}
FixOutcomes == {"applied", "not_applied", "analysis_threw"}
NoError == [at |-> 0, kind |-> "none"]
NoLogs == [of |-> 0, kind |-> "none"]
NoResult == [kind |-> "none"]

BuildCall0 ==
  [name |-> "buildAndRunDocker", phase |-> "loop", attempt |-> 0,
   lastError |-> NoError, dockerLogs |-> NoLogs, fixes |-> 0,
   trail |-> <<>>, result |-> NoResult]

InitBuild == Single0 /\ fleet = NoFleet /\ fn = BuildCall0

\* A faulty loop body in which an attempt that was followed by an applied
\* fix is not counted.
BuildAttemptFixIsFree(built, logsRead, fix) ==
  /\ fn.name = "buildAndRunDocker"
  /\ fn.phase = "loop"
  /\ fn.attempt < MaxRetries
  /\ Len(fn.trail) < MaxRetries + 1
  /\ LET a == fn.attempt + 1
         err == [at |-> a, kind |-> built]
         startLogs == IF built = "start_failed" /\ logsRead
                      THEN [of |-> a, kind |-> "container"] ELSE fn.dockerLogs
         logs == IF a < MaxRetries THEN [of |-> a, kind |-> "build"] ELSE startLogs
         fixed == a < MaxRetries /\ fix = "applied"
     IN  IF built = "ok"
         THEN fn' = [fn EXCEPT !.phase = "returned", !.attempt = a,
                               !.trail = Append(fn.trail, built),
                               !.result = [kind |-> "success", attempts |-> a]]
         ELSE fn' = [fn EXCEPT !.attempt = IF fixed THEN fn.attempt ELSE a,
                               !.lastError = err, !.dockerLogs = logs,
                               !.fixes = IF fixed THEN fn.fixes + 1 ELSE fn.fixes,
                               !.trail = Append(fn.trail, built)]
  /\ UNCHANGED <<single, fleet>>

\* One pass of the while loop: attempt++, the try block up to its return,
\* or its catch block: lastError, the logs of a diagnostic build when
\* attempts remain, the automated fix, `continue` or the cleanup.
BuildAttempt(built, logsRead, fix) ==
  /\ fn.name = "buildAndRunDocker"
  /\ fn.phase = "loop"
  /\ fn.attempt < MaxRetries
  /\ LET a == fn.attempt + 1
         err == [at |-> a, kind |-> built]
         startLogs == IF built = "start_failed" /\ logsRead
                      THEN [of |-> a, kind |-> "container"] ELSE fn.dockerLogs
         logs == IF a < MaxRetries THEN [of |-> a, kind |-> "build"] ELSE startLogs
         fixed == a < MaxRetries /\ fix = "applied"
     IN  IF built = "ok"
         THEN fn' = [fn EXCEPT !.phase = "returned", !.attempt = a,
                               !.trail = Append(fn.trail, built),
                               !.result = [kind |-> "success", attempts |-> a]]
         ELSE fn' = [fn EXCEPT !.attempt = a,
                               !.lastError = err, !.dockerLogs = logs,
                               !.fixes = IF fixed THEN fn.fixes + 1 ELSE fn.fixes,
                               !.trail = Append(fn.trail, built)]
  /\ UNCHANGED <<single, fleet>>

\* The loop condition fails: the failure result is returned.
BuildExhausted ==
  /\ fn.name = "buildAndRunDocker"
  /\ fn.phase = "loop"
  /\ ~(fn.attempt < MaxRetries)
  /\ fn' = [fn EXCEPT !.phase = "returned",
                      !.result = [kind |-> "failure", error |-> fn.lastError,
                                  dockerLogs |-> fn.dockerLogs,
                                  attempts |-> MaxRetries]]
  /\ UNCHANGED <<single, fleet>>

NextBuild ==
  \/ \E built \in BuildOutcomes, logsRead \in BOOLEAN, fix \in FixOutcomes :
       BuildAttempt(built, logsRead, fix)
  \/ BuildExhausted

\* The loop body is straight-line code of one process: a pass that has
\* started runs to its end once the calls it awaits have returned or thrown.
SpecBuild == InitBuild /\ [][NextBuild]_vars /\ WF_vars(NextBuild)

\* C21: buildAndRunDocker makes at most maxRetries attempts, applied fixes
\* included; it always comes to a return; what it returns is a success or a
\* failure result, never an exception; and the failure result, returned
\* exactly when every one of the maxRetries attempts failed, carries the
\* error of the last attempt and the logs captured on the way.
C21_BuildSafe ==
  fn.name = "buildAndRunDocker"
    => /\ Len(fn.trail) <= MaxRetries
       /\ fn.attempt = Len(fn.trail)
       /\ fn.phase = "returned"
            => /\ fn.result.kind \in {"success", "failure"}
               /\ fn.result.kind = "failure"
                    <=> (Len(fn.trail) = MaxRetries
                         /\ \A i \in 1..MaxRetries : fn.trail[i] # "ok")
               /\ fn.result.kind = "failure"
                    => /\ fn.result.error = [at |-> MaxRetries, kind |-> fn.trail[MaxRetries]]
                       /\ fn.result.dockerLogs # NoLogs
                       /\ fn.result.attempts = MaxRetries

Ch(c) == [ch |-> c]
Num(n) == [num |-> n]
VersionString(t) == <<Ch("v"), Num(t[1]), Ch("."), Num(t[2]), Ch("."), Num(t[3])>>

\* currentVersion.replace('v', '').split('.').map(Number)
RECURSIVE DropFirst(_, _)
DropFirst(s, ch) ==
  IF s = <<>> THEN <<>>
  ELSE IF Head(s) = ch THEN Tail(s)
  ELSE <<Head(s)>> \o DropFirst(Tail(s), ch)

ParseVersion(s) ==
  LET parts == SelectSeq(DropFirst(s, Ch("v")), LAMBDA x : x # Ch("."))
  IN  <<parts[1].num, parts[2].num, parts[3].num>>

\* The change sets handed over by improveApp: [...changedFiles, ...addedFiles]
ChangePaths == {"package.json", "server.js", "src/App.jsx"}
VersionInputs == {<<ma, mi, pa>> : ma \in 1..2, mi \in 0..2, pa \in 0..2}

VersionCalls ==
  [name : {"calculateSemanticVersion"}, phase : {"called"},
   id : VersionInputs, changeType : {"minor"},
   changedFiles : SUBSET ChangePaths, result : {<<>>}]

InitVersion == Single0 /\ fleet = NoFleet /\ fn \in VersionCalls

VersionBump ==
  /\ fn.name = "calculateSemanticVersion"
  /\ fn.phase = "called"
  /\ fn' = [fn EXCEPT !.phase = "done",
                      !.result = VersionString(calculateSemanticVersion(
                                   ParseVersion(VersionString(fn.id)),
                                   fn.changeType, fn.changedFiles))]
  /\ UNCHANGED <<single, fleet>>

NextVersion == VersionBump
SpecVersion == InitVersion /\ [][NextVersion]_vars

Fingerprints == UNION {[S -> {Unknown, Sha256(1), Sha256(2)}] : S \in SUBSET ChangePaths}

DiffCalls ==
  [name : {"detectChangedFiles"}, phase : {"called"},
   oldHashes : Fingerprints, newHashes : Fingerprints,
   result : {[changedFiles |-> {}, addedFiles |-> {}, removedFiles |-> {}]}]

InitDiff == Single0 /\ fleet = NoFleet /\ fn \in DiffCalls

Diff ==
  /\ fn.name = "detectChangedFiles"
  /\ fn.phase = "called"
  /\ fn' = [fn EXCEPT !.phase = "done",
                      !.result = detectChangedFiles(fn.oldHashes, fn.newHashes)]
  /\ UNCHANGED <<single, fleet>>

NextDiff == Diff
SpecDiff == InitDiff /\ [][NextDiff]_vars

\* C23: for all fingerprint mappings old and new, changed = the paths of
\* both with different hashes, added = the paths of new only, removed = the
\* paths of old only; the three are pairwise disjoint; and a mapping
\* diffed against itself gives three empty results.
C23_DiffIsSetComparison ==
  (fn.name = "detectChangedFiles" /\ fn.phase = "done")
    => LET old == fn.oldHashes
           new == fn.newHashes
           r == fn.result
       IN  /\ r.changedFiles = {f \in (DOMAIN old) \cap (DOMAIN new) : old[f] # new[f]}
           /\ r.addedFiles = (DOMAIN new) \ (DOMAIN old)
           /\ r.removedFiles = (DOMAIN old) \ (DOMAIN new)
           /\ r.changedFiles \cap r.addedFiles = {}
           /\ r.changedFiles \cap r.removedFiles = {}
           /\ r.addedFiles \cap r.removedFiles = {}
           /\ old = new => (r.changedFiles = {} /\ r.addedFiles = {} /\ r.removedFiles = {})

\* C23 witness: one diff with a changed, an added and a removed path.
C23_Witness ==
  /\ fn.name = "detectChangedFiles"
  /\ fn.phase = "done"
  /\ fn.result.changedFiles = {"package.json"}
  /\ fn.result.addedFiles = {"src/App.jsx"}
  /\ fn.result.removedFiles = {"server.js"}

\* ---------------------------------------------------- determineBuildStrategy
\* Paths as sequences of segments: 'src/App.jsx' is <<"src", "App.jsx">>.
StrategyPaths ==
  {<<"package.json">>, <<"server.js">>, <<"src", "App.jsx">>, <<"src", "index.css">>,
   <<"README.md">>, <<"lib", "server.js">>, <<"client", "package.json">>}

\* f.startsWith('src/')
StartsWithSrc(f) == Len(f) > 1 /\ f[1] = "src"

\* A faulty selector that looks at the manifest only after the backend test.
determineBuildStrategyLate(changedFiles) ==
  LET frontendFiles == {f \in changedFiles : StartsWithSrc(f)}
      backendFiles == {f \in changedFiles : f = <<"server.js">>}
      depFiles == {f \in changedFiles : f = <<"package.json">>}
  IN  IF backendFiles # {} /\ frontendFiles = {} THEN "backend-only"
      ELSE IF depFiles # {} THEN "dependencies"
      ELSE IF frontendFiles # {} /\ backendFiles = {} THEN "frontend-only"
      ELSE "full"

determineBuildStrategy(changedFiles) ==
  LET frontendFiles == {f \in changedFiles : StartsWithSrc(f)}
      backendFiles == {f \in changedFiles : f = <<"server.js">>}
      depFiles == {f \in changedFiles : f = <<"package.json">>}
  IN  IF depFiles # {} THEN "dependencies"
      ELSE IF backendFiles # {} /\ frontendFiles = {} THEN "backend-only"
      ELSE IF frontendFiles # {} /\ backendFiles = {} THEN "frontend-only"
      ELSE "full"

StrategyCalls ==
  [name : {"determineBuildStrategy"}, phase : {"called"},
   changedFiles : SUBSET StrategyPaths, result : {"none"}]

InitStrategy == Single0 /\ fleet = NoFleet /\ fn \in StrategyCalls

SelectStrategy ==
  /\ fn.name = "determineBuildStrategy"
  /\ fn.phase = "called"
  /\ fn' = [fn EXCEPT !.phase = "done",
                      !.result = determineBuildStrategy(fn.changedFiles)]
  /\ UNCHANGED <<single, fleet>>

NextStrategy == SelectStrategy
SpecStrategy == InitStrategy /\ [][NextStrategy]_vars

\* C24: for every change set that contains package.json the selector
\* returns the dependency tier, whatever else the set contains.
C24_ManifestDominates ==
  (fn.name = "determineBuildStrategy" /\ fn.phase = "done"
     /\ <<"package.json">> \in fn.changedFiles)
    => fn.result = "dependencies"

\* C24 witness: {package.json, server.js} has been given the dependency tier.
C24_Witness ==
  /\ fn.name = "determineBuildStrategy"
  /\ fn.phase = "done"
  /\ fn.changedFiles = {<<"package.json">>, <<"server.js">>}
  /\ fn.result = "dependencies"

\* C25: for every change set without package.json, backend-only is returned
\* only if every file of the set is server.js, frontend-only only if every
\* file of the set is under src/, and the full rebuild is returned for a
\* mixed set, a set with a file of neither kind, and the empty set.
C25_TiersWithoutManifest ==
  (fn.name = "determineBuildStrategy" /\ fn.phase = "done"
     /\ <<"package.json">> \notin fn.changedFiles)
    => LET cs == fn.changedFiles
           allBackend == \A f \in cs : f = <<"server.js">>
           allFrontend == \A f \in cs : StartsWithSrc(f)
       IN  /\ fn.result = "backend-only" => allBackend
           /\ fn.result = "frontend-only" => allFrontend
           /\ (cs = {} \/ (~allBackend /\ ~allFrontend)) => fn.result = "full"

\* -------------------------------------------------------- restoreFromBackup
\* One call restoreFromBackup(appName, version) for an app the caller has
\* looked up: the ledger entries of the app, the snapshots on disk, the
\* live directory.
RestoreIds == {V100, <<1, 0, 1>>, <<1, 1, 0>>}
RestoreDirs == [Paths -> {Absent} \cup Contents]
SnapshotDirs == {d \in RestoreDirs : \A f, g \in Paths : d[f] = d[g]}
RestoreEntries == [version : {V100, <<1, 0, 1>>}, files : {{}, {"server.js"}, Paths}]
RestoreApps == {[versions |-> vs] : vs \in UNION {[1..n -> RestoreEntries] : n \in 1..2}}
RestoreSnapshots == UNION {[S -> SnapshotDirs] : S \in SUBSET {V100, <<1, 1, 0>>}}

RestoreCalls ==
  [name : {"restoreFromBackup"}, phase : {"called"},
   app : RestoreApps, backups : RestoreSnapshots, dir : RestoreDirs,
   version : RestoreIds,
   result : {[returned |-> "none", dir |-> [f \in Paths |-> Absent]]}]

InitRestore == Single0 /\ fleet = NoFleet /\ fn \in RestoreCalls

Restore ==
  /\ fn.name = "restoreFromBackup"
  /\ fn.phase = "called"
  /\ fn' = [fn EXCEPT
       !.phase = "done",
       !.result = [returned |-> IF restoreOk(fn.backups, fn.app, fn.version)
                                THEN "true" ELSE "false",
                   dir |-> restoreFromBackup(fn.backups, fn.app, fn.dir, fn.version)]]
  /\ UNCHANGED <<single, fleet>>

NextRestore == Restore
SpecRestore == InitRestore /\ [][NextRestore]_vars

\* C26: whenever the snapshot directory of the requested version does not
\* exist, or the ledger has no entry for that version, restoreFromBackup
\* returns false and leaves every file of the live directory as it was.
C26_RestoreRefuses ==
  (fn.name = "restoreFromBackup" /\ fn.phase = "done"
     /\ (\/ fn.version \notin DOMAIN fn.backups
         \/ \A i \in 1..Len(fn.app.versions) : fn.app.versions[i].version # fn.version))
    => /\ fn.result.returned = "false"
       /\ fn.result.dir = fn.dir

\* C26 witness: a snapshot exists and differs from the live directory, the
\* ledger has no entry for the version, and the call has returned false.
C26_Witness ==
  /\ fn.name = "restoreFromBackup"
  /\ fn.phase = "done"
  /\ fn.version \in DOMAIN fn.backups
  /\ \A i \in 1..Len(fn.app.versions) : fn.app.versions[i].version # fn.version
  /\ \E f \in Paths : fn.backups[fn.version][f] \notin {Absent, fn.dir[f]}
  /\ fn.result.returned = "false"

\* C27: version history is append-only and committed entries are immutable:
\* no step of improve, rollback or retry-build removes or reorders an entry
\* of the ledger or changes any field of it other than isActive and
\* dockerStatus.
SameButStatus(e1, e2) ==
  [e1 EXCEPT !.isActive = e2.isActive, !.dockerStatus = e2.dockerStatus] = e2

C27_HistoryAppendOnly ==
  [][(app # NoApp)
       => /\ app' # NoApp
          /\ Len(app'.versions) >= Len(app.versions)
          /\ \A i \in 1..Len(app.versions) :
               SameButStatus(app.versions[i], app'.versions[i])]_vars

\* C28: in every improve and rollback cycle the snapshot of the current
\* version has been completed before the first write to a file of the live
\* directory: a step of a cycle that changes the live directory is taken
\* only with the snapshot of that cycle created.
CycleStep ==
  \/ pc # "idle"
  \/ pc' # "idle"
  \/ "backup_failed" \in console'
  \/ "backup_created" \in console'

C28_SnapshotBeforeWrite ==
  [][(CycleStep /\ live' # live) => "backup_created" \in console']_vars

\* ------------------------------------------------------ parseAndCreateFiles
\* The path attribute of a <file> block: absolute or not, and its segments.
\* '[...slug].jsx' is an ordinary file name whose text holds two dots in a row.
Segments == {"src", "server.js", "[...slug].jsx", ".", ".."}
BlockPaths == [abs : BOOLEAN, segs : UNION {[1..n -> Segments] : n \in 1..3}]
AppDir == <<"tmp", "app">>

\* path.normalize on the segments: '.' is dropped, '..' removes the
\* segment before it, stays when there is none, and is dropped at the root.
RECURSIVE NormSegs(_, _, _)
NormSegs(segs, acc, abs) ==
  IF segs = <<>> THEN acc
  ELSE LET s == Head(segs)
           n == Len(acc)
       IN  IF s = "." THEN NormSegs(Tail(segs), acc, abs)
           ELSE IF s = ".."
                THEN IF n > 0 /\ acc[n] # ".."
                     THEN NormSegs(Tail(segs), SubSeq(acc, 1, n - 1), abs)
                     ELSE IF abs THEN NormSegs(Tail(segs), acc, abs)
                     ELSE NormSegs(Tail(segs), Append(acc, s), abs)
           ELSE NormSegs(Tail(segs), Append(acc, s), abs)

\* path.normalize(originalPath); the empty relative result is '.'
Normalize(p) ==
  LET segs == NormSegs(p.segs, <<>>, p.abs)
  IN  [abs |-> p.abs, segs |-> IF segs = <<>> /\ ~p.abs THEN <<".">> ELSE segs]

\* relativePath.includes('..'): a test on the text, true for the segment
\* '..' and for every name that holds two dots in a row.
TextHasDotDot(p) == \E i \in 1..Len(p.segs) : p.segs[i] \in {"..", "[...slug].jsx"}

\* path.join(appPath, relativePath)
Join(dir, p) == NormSegs(dir \o p.segs, <<>>, FALSE)

\* filePath.startsWith(appPath)
StartsWith(segs, prefix) ==
  Len(segs) >= Len(prefix) /\ SubSeq(segs, 1, Len(prefix)) = prefix

\* One pass of the loop over the blocks: the block is skipped, or written
\* at filePath.
WriteBlock(p) ==
  LET relativePath == Normalize(p)
      filePath == Join(AppDir, relativePath)
  IN  IF TextHasDotDot(relativePath) \/ relativePath.abs
      THEN [written |-> FALSE, at |-> <<>>]
      ELSE IF ~StartsWith(filePath, AppDir)
      THEN [written |-> FALSE, at |-> <<>>]
      ELSE IF filePath = AppDir
      THEN [written |-> FALSE, at |-> <<>>]    \* writeFile on the directory throws
      ELSE [written |-> TRUE, at |-> filePath]

parseAndCreateFiles(blocks) == [i \in 1..Len(blocks) |-> WriteBlock(blocks[i])]

SecondBlocks ==
  {[abs |-> FALSE, segs |-> <<"server.js">>], [abs |-> FALSE, segs |-> <<"..", "server.js">>]}

ParseCalls ==
  [name : {"parseAndCreateFiles"}, phase : {"called"},
   blocks : {<<p>> : p \in BlockPaths} \cup {<<p, q>> : p \in BlockPaths, q \in SecondBlocks},
   result : {<<>>}]

InitParse == Single0 /\ fleet = NoFleet /\ fn \in ParseCalls

ParseAndCreate ==
  /\ fn.name = "parseAndCreateFiles"
  /\ fn.phase = "called"
  /\ fn' = [fn EXCEPT !.phase = "done", !.result = parseAndCreateFiles(fn.blocks)]
  /\ UNCHANGED <<single, fleet>>

NextParse == ParseAndCreate
SpecParse == InitParse /\ [][NextParse]_vars

\* Where the operating system puts a file opened under the name
\* appPath/<path>: an absolute path ignores appPath.
Resolved(p) == IF p.abs THEN NormSegs(p.segs, <<>>, TRUE)
               ELSE NormSegs(AppDir \o p.segs, <<>>, FALSE)
Inside(segs) == StartsWith(segs, AppDir) /\ Len(segs) > Len(AppDir)
HasParentSegment(p) == \E i \in 1..Len(p.segs) : p.segs[i] = ".."
MustSkip(p) == p.abs \/ HasParentSegment(p) \/ ~Inside(Resolved(p))

\* C29: for every batch of file blocks, every file written lies inside the
\* app's directory; a block whose path is absolute, holds a parent-directory
\* segment or resolves outside the directory is skipped; and every other
\* block of the batch is written.
C29_WritesStayInside ==
  (fn.name = "parseAndCreateFiles" /\ fn.phase = "done")
    => \A i \in 1..Len(fn.blocks) :
         /\ fn.result[i].written => Inside(fn.result[i].at)
         /\ MustSkip(fn.blocks[i]) => ~fn.result[i].written
         /\ ~MustSkip(fn.blocks[i]) => fn.result[i].written

\* C30: a createApp whose build and container start succeed adds the app's
\* entry with exactly one version, v1.0.0, active, with dockerStatus
\* 'running', no parent, and currentVersion v1.0.0; a createApp for a name
\* the ledger already holds leaves the ledger as it was.
C30_CreateCommitsOnce ==
  [][(\E batch \in Batches, fix \in Fixes, dockerOk \in BOOLEAN :
        createApp(batch, fix, dockerOk))
       => /\ app # NoApp => (app' = app /\ nextPort' = nextPort)
          /\ outcome' = <<"create", "committed">>
               => /\ app = NoApp
                  /\ app' # NoApp
                  /\ app'.currentVersion = V100
                  /\ Len(app'.versions) = 1
                  /\ app'.versions[1].version = V100
                  /\ app'.versions[1].isActive
                  /\ app'.versions[1].dockerStatus = "running"
                  /\ app'.versions[1].parentVersion = NoVersion]_vars

\* C30 witness: the app was created and runs, and a second createApp for
\* the same name has found it.
C30_Witness ==
  /\ outcome = <<"create", "exists">>
  /\ app # NoApp
  /\ Len(app.versions) = 1
  /\ app.versions[1].isActive

\* C31: when rollbackToVersion fails at its restore, build or deploy step,
\* the ledger is what it was (same currentVersion pointer, same isActive
\* flags) and every file of the version that was current when the rollback
\* started is in the live directory with the content it had then.
RollbackFailsAt(stages) ==
  /\ outcome' = <<"rollback", outcome'[2]>>
  /\ outcome'[2] \in stages
  /\ pc' = "idle"
  /\ \/ pc = "idle" /\ "rollback_failed" \in console' /\ console' # console
     \/ pc # "idle" /\ cyc.op = "rollback"

LiveBefore == IF pc = "idle" THEN live ELSE cyc.live0

C31_FailedRollbackKeepsPrevious ==
  [][RollbackFailsAt({"restore_failed", "build_failed", "deploy_failed"})
       => /\ app' = app
          /\ \A f \in app.versions[getCurrentVersion(app)].files :
               live'[f] = LiveBefore[f]]_vars

\* ------------------------------------------------- stopApp and removeApp
\* docker stop of one name: the container stays, not running
Stop(cs, n) ==
  {IF c.name = n THEN [c EXCEPT !.running = FALSE] ELSE c : c \in cs}

\* stopApp: `docker stop "<app>"` addresses the container named after the
\* app; when that succeeds the entry's own dockerStatus property is set and
\* the ledger written. When no container has that name docker stop throws
\* and only the error is printed.
stopApp ==
  /\ pc = "idle"
  /\ IF app = NoApp
     THEN /\ outcome' = <<"stop", "not_found">>
          /\ console' = {"not_found"}
          /\ UNCHANGED <<app, containers>>
     ELSE IF Has(containers, CApp)
     THEN /\ containers' = Stop(containers, CApp)
          /\ app' = [app EXCEPT !.dockerStatus = "stopped"]
          /\ outcome' = <<"stop", "committed">>
          /\ console' = {"stopped"}
     ELSE /\ outcome' = <<"stop", "failed">>
          /\ console' = {"error_stopping"}
          /\ UNCHANGED <<app, containers>>
  /\ UNCHANGED <<nextPort, live, backups, pc, cyc>>
  /\ UNCHANGED aux

\* listApps, versioned schema: the status shown is the dockerStatus of the
\* entry that currentVersion names, or of the last entry.
listedStatus(a) ==
  LET i == FindIndex(a.versions, a.currentVersion)
      currentVersion == IF i = 0 THEN a.versions[Len(a.versions)]
                        ELSE a.versions[i]
  IN  IF currentVersion.dockerStatus = "running" THEN "Running" ELSE "Stopped"

\* removeApp: docker stop / docker rm of the container named after the
\* app (any failure is swallowed), removal of the directory only when the
\* entry has a `path` property starting with ./tmp/ (appInfo has none),
\* then the entry is spliced out of the ledger and the ledger written.
removeApp ==
  /\ pc = "idle"
  /\ IF app = NoApp
     THEN /\ outcome' = <<"remove", "not_found">>
          /\ console' = {"not_found"}
          /\ UNCHANGED <<app, containers>>
     ELSE /\ containers' = Remove(containers, CApp)
          /\ app' = NoApp
          /\ outcome' = <<"remove", "committed">>
          /\ console' = {"removed"}
  /\ UNCHANGED <<nextPort, live, backups, pc, cyc>>
  /\ UNCHANGED aux

\* createApp, improveApp and rollbackToVersion without failing
\* collaborators, together with stopApp and removeApp.
NextOps ==
  \/ Step({TRUE}, MaxVersions)
  \/ stopApp
  \/ removeApp

SpecOps == Init /\ [][NextOps]_vars

\* C32: a removeApp on an existing app leaves no entry in the ledger, no
\* file of the app's directory and no running container of the app, the
\* containers of its versions included.
C32_RemoveLeavesNothing ==
  [][(removeApp /\ app # NoApp)
       => /\ app' = NoApp
          /\ \A f \in Paths : live'[f] = Absent
          /\ \A c \in containers' : ~c.running]_vars

\* ------------------------------------------- retention of the snapshots
\* The design's retention policy and its cleanupOldVersions(appName,
\* keepVersions = 5). create-app.js has no such method and no statement
\* that deletes anything below .backups: createBackup only adds. The
\* commands below are the ones that write snapshots, over histories long
\* enough to exceed the policy, with one generated file per cycle.
KeepVersions == 5
MaxRetention == 7

RetentionBatches == {batch \in Batches : DOMAIN batch = {"server.js"}}

NextRetention ==
  \/ \E batch \in RetentionBatches : createApp(batch, <<>>, TRUE)
  \/ ImproveBegin(TRUE, MaxRetention)
  \/ \E batch \in RetentionBatches : ImproveGenerate(TRUE, batch)
  \/ BuildVersioned(TRUE)
  \/ DeployPortCheck(TRUE)
  \/ DeployRunTemp(TRUE)
  \/ DeployTempHealth(TRUE)
  \/ DeployStopOld
  \/ DeployRebind(TRUE)
  \/ DeployFinalHealth(TRUE)
  \/ ImproveCommit(TRUE)
  \/ RollbackBegin(V100, TRUE)
  \/ RollbackCommit(TRUE)

SpecRetention == Init /\ [][NextRetention]_vars

\* C33: the retention policy is in force whenever a command has ended: the
\* app holds at most KeepVersions snapshots, older ones having been deleted.
C33_RetentionKeepsFive ==
  (pc = "idle" /\ app # NoApp) => Cardinality(DOMAIN backups) <= KeepVersions

\* ------------------------------------------------ app-type detection
\* The detection at the head of buildAndRunDocker and, statement for
\* statement, of buildVersionedContainer. A package.json is missing,
\* unparsable, or parsed; a parsed one may lack either dependency section.
DepNames == {"vite", "express"}

ManifestSections ==
  {[present |-> FALSE, names |-> {}]}
    \cup {[present |-> TRUE, names |-> S] : S \in SUBSET DepNames}

Manifests ==
  {[kind |-> "missing"], [kind |-> "unparsable"]}
    \cup {[kind |-> "parsed", devDependencies |-> d, dependencies |-> p] :
            d \in ManifestSections, p \in ManifestSections}

\* truthiness of packageJson.<section>?.<name>
Listed(section, name) == section.present /\ name \in section.names

\* A faulty detection that tests for vite before it tests for all three.
detectAppTypeViteFirst(packageJson, serverFile) ==
  IF packageJson.kind # "parsed" THEN "backend-only"
  ELSE LET hasVite == Listed(packageJson.devDependencies, "vite")
                        \/ Listed(packageJson.dependencies, "vite")
           hasExpress == Listed(packageJson.dependencies, "express")
           hasServerFile == serverFile
       IN  IF hasVite THEN "frontend-only"
           ELSE IF hasVite /\ hasExpress /\ hasServerFile THEN "fullstack"
           ELSE "backend-only"

\* appType starts as 'backend-only'; readFile / JSON.parse throwing leaves
\* it so; otherwise the if / else-if chain decides.
detectAppType(packageJson, serverFile) ==
  IF packageJson.kind # "parsed" THEN "backend-only"
  ELSE LET hasVite == Listed(packageJson.devDependencies, "vite")
                        \/ Listed(packageJson.dependencies, "vite")
           hasExpress == Listed(packageJson.dependencies, "express")
           hasServerFile == serverFile
       IN  IF hasVite /\ hasExpress /\ hasServerFile THEN "fullstack"
           ELSE IF hasVite THEN "frontend-only"
           ELSE IF hasExpress \/ hasServerFile THEN "backend-only"
           ELSE "backend-only"

AppTypeCalls ==
  {[name |-> "detectAppType", phase |-> "called", packageJson |-> m,
    serverFile |-> s, result |-> "none"] :
     m \in Manifests, s \in BOOLEAN}

InitAppType == Single0 /\ fleet = NoFleet /\ fn \in AppTypeCalls

DetectAppType ==
  /\ fn.name = "detectAppType"
  /\ fn.phase = "called"
  /\ fn' = [fn EXCEPT !.phase = "done",
                      !.result = detectAppType(fn.packageJson, fn.serverFile)]
  /\ UNCHANGED <<single, fleet>>

NextAppType == DetectAppType

SpecAppType == InitAppType /\ [][NextAppType]_vars

\* what the directory holds, read off the manifest
DependsOnVite(m) ==
  /\ m.kind = "parsed"
  /\ \/ m.devDependencies.present /\ "vite" \in m.devDependencies.names
     \/ m.dependencies.present /\ "vite" \in m.dependencies.names
DependsOnExpress(m) ==
  m.kind = "parsed" /\ m.dependencies.present /\ "express" \in m.dependencies.names

\* C34: the detected type is fullstack exactly when the directory has the
\* vite dependency, the express dependency and server.js; frontend-only
\* when it has vite but not all three; backend-only in every other case,
\* a missing or unparsable package.json included.
C34_AppTypeDetection ==
  fn.phase = "done" =>
    LET allThree == /\ DependsOnVite(fn.packageJson)
                    /\ DependsOnExpress(fn.packageJson)
                    /\ fn.serverFile
    IN  /\ (fn.result = "fullstack") <=> allThree
        /\ (fn.result = "frontend-only")
             <=> (DependsOnVite(fn.packageJson) /\ ~allThree)
        /\ (fn.result = "backend-only") <=> ~DependsOnVite(fn.packageJson)
        /\ fn.packageJson.kind # "parsed" => fn.result = "backend-only"

C34_Witness ==
  /\ fn.phase = "done"
  /\ fn.result = "fullstack"
  /\ fn.packageJson.kind = "parsed"
  /\ "vite" \in fn.packageJson.devDependencies.names

\* C35: once a command has ended, no entry with isActive = false has
\* dockerStatus "running": the version a successful improve or rollback
\* superseded is recorded as stopped, and at most one entry is recorded
\* as running.
C35_SupersededIsStopped ==
  (pc = "idle" /\ app # NoApp) =>
    /\ \A i \in 1..Len(app.versions) :
         ~app.versions[i].isActive => app.versions[i].dockerStatus # "running"
    /\ Cardinality({i \in 1..Len(app.versions) :
                      app.versions[i].dockerStatus = "running"}) <= 1

\* C36: every file a snapshot of version v holds has the content that v's
\* fileHashes record, in every state: no later snapshot, restore or commit
\* puts content of another version into v's snapshot.
C36_SnapshotMatchesHashes ==
  app # NoApp =>
    \A v \in DOMAIN backups :
      LET i == FindIndex(app.versions, v)
      IN  i # 0 =>
            \A f \in Paths :
              backups[v][f] # Absent
                => /\ f \in DOMAIN app.versions[i].fileHashes
                   /\ app.versions[i].fileHashes[f] = Sha256(backups[v][f])

\* the step in which improveApp finds no changed, added or removed path
NoChangesStep ==
  /\ pc = "generate"
  /\ cyc.op = "improve"
  /\ pc' = "idle"
  /\ outcome' = <<"improve", "no_changes">>

\* C37: an improveApp that detects no change ends there: the ledger and the
\* containers are as they were, and every file of the current version has
\* the content it had when the cycle began.
C37_NoChangeNoEffect ==
  [][NoChangesStep
       => /\ app' = app
          /\ containers' = containers
          /\ \A f \in app.versions[cyc.cur].files : live'[f] = cyc.live0[f]]_vars

\* ------------------------------------------- commands with retry-docker
\* createApp with a container build that may fail, improveApp and
\* rollbackToVersion without failing collaborators, and retryDockerBuild,
\* whose automated fixes may rewrite or delete a file of the directory.
NextRepair ==
  \/ Step({TRUE}, MaxVersions)
  \/ \E batch \in Batches \ {<<>>} : createApp(batch, <<>>, FALSE)
  \/ \E fix \in Fixes, ok \in BOOLEAN : retryDockerBuild(fix, ok)

SpecRepair == Init /\ [][NextRepair]_vars

\* the step in which improveApp pushes the new entry
ImproveCommits ==
  /\ pc # "idle"
  /\ cyc.op = "improve"
  /\ app' # NoApp
  /\ Len(app'.versions) = Len(app.versions) + 1

\* C38: the entry improveApp commits has no removed file and lists every
\* file of its parent; a parent file with a recorded digest that cannot be
\* read any more is fingerprinted "unknown" and listed as changed, and the
\* readable files are fingerprinted all the same.
C38_NothingRemoved ==
  [][ImproveCommits =>
       LET parent == app.versions[cyc.cur]
           new == app'.versions[Len(app'.versions)]
       IN  /\ new.removedFiles = {}
           /\ parent.files \subseteq new.files
           /\ DOMAIN new.fileHashes = new.files
           /\ \A f \in parent.files :
                (live[f] = Absent /\ parent.fileHashes[f] # Unknown)
                  => /\ new.fileHashes[f] = Unknown
                     /\ f \in new.changedFiles
           /\ \A f \in new.files :
                live[f] # Absent => new.fileHashes[f] = Sha256(live[f])]_vars

\* an improve has committed although a file of the parent was unreadable
C38_Witness ==
  /\ outcome = <<"improve", "committed">>
  /\ pc = "idle"
  /\ LET new == app.versions[Len(app.versions)]
     IN  \E f \in new.files :
           /\ new.fileHashes[f] = Unknown
           /\ f \in new.changedFiles
           /\ \E g \in new.files : new.fileHashes[g] # Unknown

\* the step in which retryDockerBuild ends after a successful build and run
RetrySucceeds ==
  /\ pc = "idle"
  /\ app # NoApp
  /\ outcome' = <<"retry", "committed">>
  /\ nextPort' = nextPort + 1

\* C39: after a successful retryDockerBuild the entry named by
\* currentVersion is active with dockerStatus "running", and the port the
\* ledger records for the app is the port of the container just started.
C39_RetryUpdatesCurrent ==
  [][RetrySucceeds =>
       LET i == getCurrentVersion(app')
       IN  /\ i # 0
           /\ app'.versions[i].isActive
           /\ app'.versions[i].dockerStatus = "running"
           /\ \E c \in containers' \ containers :
                c.running /\ c.port = app'.port]_vars

\* the step in which stopApp ends after a successful docker stop
StopSucceeds ==
  /\ pc = "idle"
  /\ app # NoApp
  /\ outcome' = <<"stop", "committed">>
  /\ console' = {"stopped"}
  /\ containers' = Stop(containers, CApp)

\* C40: after a successful stopApp the container of the app's active
\* version is not running, the ledger records that version's dockerStatus
\* as "stopped", and listApps shows the app as stopped.
C40_StopStopsActive ==
  [][StopSucceeds =>
       LET i == getCurrentVersion(app')
       IN  /\ i # 0
           /\ ~Running(containers', app'.versions[i].containerName)
           /\ app'.versions[i].dockerStatus = "stopped"
           /\ listedStatus(app') = "Stopped"]_vars
====
